---- MODULE Spec2Model ----
(***************************************************************************)
(* A model of the RER polling pipeline (src/src/idf_rer): the PRIM client  *)
(* with its retry loop, the service-day assignment, the raw ledger with    *)
(* its read-merge-write append, the daily rebinner, the SIRI flattener,    *)
(* the event filter, the per-poll aggregator and the poll cycle.           *)
(*                                                                         *)
(* Encodings.                                                              *)
(*  - An instant is an integer: minutes since 2024-01-01T00:00Z.  The      *)
(*    ledger stores instants as fixed-width ISO-8601 strings, whose        *)
(*    lexicographic order is the order of the integers.                    *)
(*  - A calendar day is its index since 2024-01-01 (date.isoformat() is    *)
(*    injective on days).                                                  *)
(*  - A stop_id is an integer: 0 is the empty string "" (what the          *)
(*    flattener emits for a stop call without a reference), 1, 2, ... are  *)
(*    non-empty ids in lexicographic order, and NaN is the missing value   *)
(*    pandas holds for an empty CSV field.                                 *)
(*  - A line_code is an integer: 1 is "RER A", 2 is "RER B".               *)
(*  - mean_delay_s and mean_lateness_s are held in thousandths of a        *)
(*    second (the code rounds both to 3 decimals).                         *)
(*  - The timestamps of a payload and of the events made from it are in    *)
(*    seconds since 2024-01-01T00:00Z.  A time text of the payload is a    *)
(*    record telling whether it is absent, blank, unparsable or an ISO     *)
(*    text with its wall clock and offset; a time field of an event tells  *)
(*    whether the flattener wrote an ISO string, "" or None.               *)
(*  - A line name of a payload is a sequence of one-character strings.     *)
(***************************************************************************)
EXTENDS Integers, Sequences, FiniteSets, TLC

VARIABLES
    sd,        \* _service_day: the last call, its arguments and its result
    http,      \* PrimClient.get_json: configuration, loop position, outcome
    files,     \* data/rer_raw: service day -> rows of <day>.csv (absent: no file)
    daily,     \* data/rer_daily: service day -> rows of <day>.csv
    last,      \* the last ledger operation: its inputs, its result, the store before it
    nRows,     \* number of rows handed to append_raw_poll_rows so far
    cycle,     \* run_one_poll: position, payload, outcome, the store at its start
    fn         \* the last direct call of a stateless function: name, argument, result

vars == <<sd, http, files, daily, last, nRows, cycle, fn>>

----------------------------------------------------------------------------
(* Time: Europe/Paris in 2024.                                             *)

MinutesPerDay == 24 * 60

\* 2024-03-31T01:00Z: 02:00 CET becomes 03:00 CEST.
SpringForward == 90 * MinutesPerDay + 60

\* 2024-10-27T01:00Z: 03:00 CEST becomes 02:00 CET.
FallBack == 300 * MinutesPerDay + 60

\* The UTC offset of Europe/Paris at instant u, in minutes.
UtcOffset(u) == IF u >= SpringForward /\ u < FallBack THEN 120 ELSE 60

\* tz_convert("Europe/Paris"): the wall clock, in minutes since 2024-01-01T00:00 local.
WallClock(u) == u + UtcOffset(u)

\* Timestamp.date() of a Paris-localised instant.
DateOf(u) == WallClock(u) \div MinutesPerDay

\* Minutes past local midnight shown by the wall clock.
MinuteOfDay(u) == WallClock(u) % MinutesPerDay

\* Timestamp.normalize(): the instant of local midnight of u's local date
\* (midnight is never inside a Paris transition).
Normalize(u) ==
    LET wall == DateOf(u) * MinutesPerDay
    IN  IF UtcOffset(wall - 60) = 60 THEN wall - 60 ELSE wall - 120

\* polling_pipeline._service_day.  Timedelta arithmetic on a tz-aware
\* Timestamp is arithmetic on the instant: the cutoff is local midnight plus
\* cutoff_h hours and cutoff_m minutes of elapsed time, and "one day
\* earlier" is 24 hours earlier.
_service_day(local_ts, cutoff_h, cutoff_m) ==
    LET cutoff == Normalize(local_ts) + 60 * cutoff_h + cutoff_m
    IN  IF local_ts < cutoff
        THEN DateOf(local_ts - MinutesPerDay)
        ELSE DateOf(local_ts)

----------------------------------------------------------------------------
(* Settings (config.Settings defaults).                                    *)

service_day_cutoff_h == 2

service_day_cutoff_m == 30

----------------------------------------------------------------------------
(* PollSummary rows and the CSV files that hold them.                      *)

\* The missing value of a pandas object column.
NaN == -1

\* append_raw_poll_rows returning None.
None == -2

\* The stop ids of the ledger model: "" and one non-empty id.
StopIds == {0, 1}

\* The line codes of the ledger model: "RER A".
LineCodes == {1}

\* Poll instants of the ledger model: 2024-01-11 02:29, 02:30 and 02:32
\* Paris time (a period of constant UTC offset), on both sides of the
\* 02:30 cutoff.
PollTimes == {10 * MinutesPerDay + 89, 10 * MinutesPerDay + 90, 10 * MinutesPerDay + 92}

\* The measures of a row: means in thousandths of a second, and counts.
\* Two trains 10 s early and 30 s late (mean 10 s, lateness 15 s), and
\* eight trains of mean delay 20 s, one of them on time.
Measures ==
    { [mean_delay_s |-> 10000, mean_lateness_s |-> 15000, n |-> 2, n_neg |-> 1, n_pos |-> 1],
      [mean_delay_s |-> 20000, mean_lateness_s |-> 20000, n |-> 8, n_neg |-> 0, n_pos |-> 7] }

\* One row as aggregate_poll lays it out (polling_pipeline.py:106-109);
\* poll_at_local is the instant poll_at_utc with the Paris offset.
MkRow(t, s, l, m) ==
    [poll_at_utc |-> t, poll_at_local |-> t, stop_id |-> s, line_code |-> l,
     mean_delay_s |-> m.mean_delay_s, mean_lateness_s |-> m.mean_lateness_s,
     n |-> m.n, n_neg |-> m.n_neg, n_pos |-> m.n_pos]

Rows == {MkRow(t, s, l, m) : t \in PollTimes, s \in StopIds, l \in LineCodes, m \in Measures}

\* Largest number of rows handed to append_raw_poll_rows in one run of the
\* model, over all its calls.
MaxRows == 3

\* The DataFrames of at most k rows a caller can pass: any rows in any
\* order, possibly none.
RowFrames(k) == UNION {[1..j -> Rows] : j \in 0..k}

\* key_cols = ["poll_at_utc", "stop_id", "line_code"]
KeyOf(r) == <<r.poll_at_utc, r.stop_id, r.line_code>>

\* DataFrame.to_csv: a missing stop_id and an empty one are both written
\* as an empty field; every other value is written as its text.
ToCsv(df) ==
    [i \in 1..Len(df) |-> [df[i] EXCEPT !.stop_id = IF @ = NaN THEN 0 ELSE @]]

\* pd.read_csv(path, dtype={"stop_id": str, "line_code": str}): an empty
\* field is read as the missing value, also in a str column.
ReadCsv(text) ==
    [i \in 1..Len(text) |-> [text[i] EXCEPT !.stop_id = IF @ = 0 THEN NaN ELSE @]]

\* The elements of s at the indices in keep, in order.
RECURSIVE Pick(_, _, _)
Pick(s, keep, i) ==
    IF i > Len(s) THEN << >>
    ELSE IF i \in keep THEN <<s[i]>> \o Pick(s, keep, i + 1)
    ELSE Pick(s, keep, i + 1)

\* DataFrame.drop_duplicates(subset=key_cols, keep="last"): a row stays
\* when no later row has the same key; two missing values are the same
\* key value, a missing value and "" are not.
DropDuplicatesLast(df) ==
    Pick(df, {i \in 1..Len(df) : \A j \in (i + 1)..Len(df) : KeyOf(df[j]) # KeyOf(df[i])}, 1)

\* The order of stop_id values under sort_values: strings ascending, the
\* missing value last.
StopLess(a, b) == a # NaN /\ (b = NaN \/ a < b)

\* Lexicographic order of the key tuple, as sort_values(key_cols) sorts.
KeyLeq(a, b) ==
    \/ a.poll_at_utc < b.poll_at_utc
    \/ /\ a.poll_at_utc = b.poll_at_utc
       /\ \/ StopLess(a.stop_id, b.stop_id)
          \/ /\ a.stop_id = b.stop_id
             /\ a.line_code <= b.line_code

\* x put into the sorted sequence s after every row that is not greater.
RECURSIVE InsertSorted(_, _)
InsertSorted(s, x) ==
    IF s = << >> THEN <<x>>
    ELSE IF KeyLeq(s[1], x) THEN <<s[1]>> \o InsertSorted(Tail(s), x)
    ELSE <<x>> \o s

\* DataFrame.sort_values(key_cols): a multi-column sort is a stable
\* group sort, rows of equal key keep their order.
RECURSIVE SortValues(_)
SortValues(df) ==
    IF df = << >> THEN << >>
    ELSE InsertSorted(SortValues(SubSeq(df, 1, Len(df) - 1)), df[Len(df)])

\* A directory with the file of day d (re)written to hold text.
WriteFile(dir, d, text) ==
    [x \in (DOMAIN dir) \cup {d} |-> IF x = d THEN text ELSE dir[x]]

\* An early return that first truncates the ledger files.
AppendNothingTruncating(raw_dir) ==
    [files |-> [d \in DOMAIN raw_dir |-> << >>], ret |-> None]

\* append_raw_poll_rows on an empty or absent frame: "return None" before
\* any path is computed or any file is touched.
AppendNothing(raw_dir) == [files |-> raw_dir, ret |-> None]

\* A merge that writes the new rows alone.
ReplaceRows(cur, rows) == SortValues(rows)

\* The merge of an existing ledger with new rows: concat, drop_duplicates
\* keeping the last row of each key, sort_values by the key.
MergeRows(cur, rows) == SortValues(DropDuplicatesLast(cur \o rows))

\* polling_pipeline.append_raw_poll_rows: the raw directory after the call
\* and the value returned.  The target file is that of the service day of
\* the first row's poll_at_local.
append_raw_poll_rows(raw_dir, rows) ==
    IF rows = << >>
    THEN AppendNothing(raw_dir)
    ELSE LET day == _service_day(rows[1].poll_at_local,
                                 service_day_cutoff_h, service_day_cutoff_m)
         IN  IF day \in DOMAIN raw_dir
             THEN [files |-> WriteFile(raw_dir, day, ToCsv(MergeRows(ReadCsv(raw_dir[day]), rows))),
                   ret |-> day]
             ELSE [files |-> WriteFile(raw_dir, day, ToCsv(SortValues(rows))), ret |-> day]

----------------------------------------------------------------------------
(* The daily rebinner.                                                     *)

\* A missing float (NaN in a numeric column) and a present one.
Null == << >>

Some(v) == <<v>>

\* The bucket widths the model rebins with, in seconds (bin_sec).
BinSecs == {300}

\* Series.dt.floor(f"{bin_sec}S") of the Paris wall clock, in seconds.
BinStart(r, bin_sec) ==
    LET wall_s == WallClock(r.poll_at_local) * 60
    IN  wall_s - (wall_s % bin_sec)

\* The sum of a sequence of integers (Series.sum()).
RECURSIVE SumSeq(_)
SumSeq(s) == IF s = << >> THEN 0 ELSE s[1] + SumSeq(Tail(s))

\* The largest of a non-empty set of integers.
MaxOf(S) == CHOOSE x \in S : \A y \in S : y <= x

\* Rounding a / n (n > 0) to the nearest integer, halves to even: round(3)
\* of a quotient held in thousandths.
RoundDiv(a, n) ==
    LET q == a \div n
        r == a % n
    IN  IF 2 * r < n THEN q
        ELSE IF 2 * r > n THEN q + 1
        ELSE IF q % 2 = 0 THEN q ELSE q + 1

\* A quotient that is 0 for an empty bin.
ZeroMean(sum_w, n) == IF n = 0 THEN Some(0) ELSE Some(RoundDiv(sum_w, n))

\* (sum_w / n).replace([inf, -inf], nan).round(3): 0/0 is NaN and x/0 is
\* infinite, both end as the missing value.
WeightedMean(sum_w, n) == IF n = 0 THEN Null ELSE Some(RoundDiv(sum_w, n))

\* The plain mean of the per-poll means of a group.
PlainMeans(g) ==
    [mean_delay_s |-> Some(RoundDiv(SumSeq([i \in 1..Len(g) |-> g[i].mean_delay_s]), Len(g))),
     mean_lateness_s |-> Some(RoundDiv(SumSeq([i \in 1..Len(g) |-> g[i].mean_lateness_s]), Len(g)))]

\* The two means of a group: w_delay = mean_delay_s * n and
\* w_late = mean_lateness_s * n are summed and divided by the summed n.
BinMeans(g) ==
    LET w_delay == [i \in 1..Len(g) |-> g[i].mean_delay_s * g[i].n]
        w_late == [i \in 1..Len(g) |-> g[i].mean_lateness_s * g[i].n]
        total == SumSeq([i \in 1..Len(g) |-> g[i].n])
    IN  [mean_delay_s |-> WeightedMean(SumSeq(w_delay), total),
         mean_lateness_s |-> WeightedMean(SumSeq(w_late), total)]

\* One output row of the groupby: the aggregate of the rows of one group.
BinRow(g, bin, stop, line) ==
    LET means == BinMeans(g)
    IN  [poll_bin_local |-> bin, stop_id |-> stop, line_code |-> line,
         mean_delay_s |-> means.mean_delay_s,
         mean_lateness_s |-> means.mean_lateness_s,
         n |-> SumSeq([i \in 1..Len(g) |-> g[i].n]),
         n_neg |-> SumSeq([i \in 1..Len(g) |-> g[i].n_neg]),
         n_pos |-> SumSeq([i \in 1..Len(g) |-> g[i].n_pos]),
         last_poll_at_utc |-> MaxOf({g[i].poll_at_utc : i \in 1..Len(g)}),
         last_poll_at_local |-> MaxOf({g[i].poll_at_local : i \in 1..Len(g)})]

\* Order of the group keys (poll_bin_local, stop_id, line_code).
GroupLeq(a, b) ==
    \/ a[1] < b[1]
    \/ a[1] = b[1] /\ a[2] < b[2]
    \/ a[1] = b[1] /\ a[2] = b[2] /\ a[3] <= b[3]

\* The group keys in ascending order.
RECURSIVE SortedKeys(_)
SortedKeys(K) ==
    IF K = {} THEN << >>
    ELSE LET k == CHOOSE x \in K : \A y \in K : GroupLeq(x, y)
         IN  <<k>> \o SortedKeys(K \ {k})

\* df.groupby([bin, stop_id, line_code]).agg(...), sorted by the group key;
\* groupby leaves out the rows whose key holds a missing value.
GroupByBin(df, bin_sec) ==
    LET kept == SelectSeq(df, LAMBDA r : r.stop_id # NaN)
        keyOf(r) == <<BinStart(r, bin_sec), r.stop_id, r.line_code>>
        keys == SortedKeys({keyOf(kept[i]) : i \in 1..Len(kept)})
    IN  [i \in 1..Len(keys) |->
            BinRow(SelectSeq(kept, LAMBDA r : keyOf(r) = keys[i]),
                   keys[i][1], keys[i][2], keys[i][3])]

\* A rebinner that patches the daily file it finds instead of replacing it.
rebuild_daily_patching(raw_dir, daily_dir, raw_path, bin_sec) ==
    LET df == ReadCsv(raw_dir[raw_path])
        prior == IF raw_path \in DOMAIN daily_dir THEN daily_dir[raw_path] ELSE << >>
    IN  WriteFile(daily_dir, raw_path,
                  IF prior # << >> THEN prior ELSE GroupByBin(df, bin_sec))

\* polling_pipeline.rebuild_daily_from_raw: the daily directory after the
\* call; the file of the same name as the ledger file is overwritten.
rebuild_daily_from_raw(raw_dir, daily_dir, raw_path, bin_sec) ==
    LET df == ReadCsv(raw_dir[raw_path])
    IN  IF df = << >>
        THEN WriteFile(daily_dir, raw_path, << >>)
        ELSE WriteFile(daily_dir, raw_path, GroupByBin(df, bin_sec))

----------------------------------------------------------------------------
(* PrimClient: one GET with bounded retries and a fixed backoff schedule.  *)

\* No error yet (last_err = None).
NoErr == [kind |-> "None", attempt |-> 0]

\* backoff_s or [0.0, 1.0, 2.0, 4.0], in seconds.
DefaultBackoff == <<0, 1, 2, 4>>

\* max_retries: int = 3
DefaultMaxRetries == 3

\* Largest max_retries a caller configures in the model.
MaxRetries == 5

\* The backoff_s arguments of the model; None and [] both select the default.
BackoffArgs == {<< >>, <<0, 1>>, <<2>>, <<0, 1, 2, 4, 8>>}

\* How one HTTP attempt can end: a 2xx response with a JSON body, a
\* transport error, a non-2xx status (raise_for_status), an undecodable body.
HttpErrors == {"transport", "status", "decode"}

IdleHttp ==
    [pc |-> "idle", max_retries |-> 0, backoff |-> << >>, k |-> 0, requests |-> << >>,
     sleeps |-> << >>, last_err |-> NoErr, result |-> 0, error |-> NoErr]

\* PrimClient.__init__ followed by the first lines of get_json.
NewClient(max_retries, backoff_s) ==
    [IdleHttp EXCEPT !.pc = "loop", !.max_retries = max_retries,
                     !.backoff = IF backoff_s = << >> THEN DefaultBackoff ELSE backoff_s]

Min(a, b) == IF a <= b THEN a ELSE b

\* range(min(self._max_retries, len(self._backoff))): the number of iterations.
Attempts(h) == Min(h.max_retries, Len(h.backoff))

\* An except clause that keeps the first error.
KeepFirstErr(h, e) == IF h.last_err = NoErr THEN e ELSE h.last_err

\* except Exception as e: last_err = e
CatchErr(h, e) == e

\* An iteration that goes on after a 2xx response instead of returning.
get_json_no_return(h, outcome, payload) ==
    [h EXCEPT !.sleeps = IF h.backoff[h.k + 1] > 0 THEN Append(@, h.backoff[h.k + 1]) ELSE @,
              !.requests = Append(@, outcome), !.k = h.k + 1,
              !.result = IF outcome = "ok" THEN payload ELSE @,
              !.last_err = IF outcome = "ok" THEN @
                           ELSE CatchErr(h, [kind |-> outcome, attempt |-> h.k + 1])]

\* One iteration of the loop of get_json: sleep backoff[k] when it is
\* positive, send the request, return its JSON or remember its error.
\* outcome is "ok" or an error kind; payload is what a 2xx response carries.
get_json_iteration(h, outcome, payload) ==
    LET delay == h.backoff[h.k + 1]
        slept == IF delay > 0 THEN Append(h.sleeps, delay) ELSE h.sleeps
        sent == Append(h.requests, outcome)
    IN  IF outcome = "ok"
        THEN [h EXCEPT !.sleeps = slept, !.requests = sent,
                       !.pc = "returned", !.result = payload]
        ELSE [h EXCEPT !.sleeps = slept, !.requests = sent, !.k = h.k + 1,
                       !.last_err = CatchErr(h, [kind |-> outcome, attempt |-> h.k + 1])]

\* raise RuntimeError(f"PRIM request failed after retries: {last_err}")
get_json_raise(h) == [h EXCEPT !.pc = "raised", !.error = h.last_err]

----------------------------------------------------------------------------
(* The SIRI payload and its flattener.                                     *)
(*                                                                         *)
(* A JSON value is kept by what the flattener asks of it.  A container    *)
(* (the value under a key) is absent, a single dict, a list, or            *)
(* something else (a string, a number, null); an element of a list is a    *)
(* dict or is not.  Text is a sequence of one-character strings.           *)

Absent == [kind |-> "absent", items |-> << >>]

Other == [kind |-> "other", items |-> << >>]

One(e) == [kind |-> "dict", items |-> <<e>>]

Many(es) == [kind |-> "list", items |-> es]

\* The value under a timestamp key of a stop call: nothing usable (the key
\* is absent, or holds null or a number), a blank string, a string that is
\* no ISO-8601 timestamp, or an ISO-8601 timestamp: a wall-clock reading
\* in seconds since 2024-01-01T00:00 with its UTC offset in seconds ("Z"
\* and a missing offset are 0).
NoText == [kind |-> "none", wall |-> 0, offset |-> 0]

BlankText == [kind |-> "blank", wall |-> 0, offset |-> 0]

BadText == [kind |-> "bad", wall |-> 0, offset |-> 0]

Iso(wall, offset) == [kind |-> "iso", wall |-> wall, offset |-> offset]

\* No timestamp under either key.
NoTimes == <<NoText, NoText>>

\* ResponseTimestamp of the payloads of the model: 2024-01-11T01:29:00Z,
\* in seconds since 2024-01-01T00:00Z.
SnapshotAt == (10 * MinutesPerDay + 89) * 60

\* A list element that is no dict (null, a string, a number, a list).
NotADict ==
    [isdict |-> FALSE, line |-> << >>, stop |-> 0, child |-> Absent,
     aimed |-> NoTimes, expected |-> NoTimes]

\* A delivery or a frame: a dict with the container of the next level.
Node(child) ==
    [isdict |-> TRUE, line |-> << >>, stop |-> 0, child |-> child,
     aimed |-> NoTimes, expected |-> NoTimes]

\* An EstimatedVehicleJourney with its line name and its EstimatedCall.
Journey(line, calls) ==
    [isdict |-> TRUE, line |-> line, stop |-> 0, child |-> calls,
     aimed |-> NoTimes, expected |-> NoTimes]

\* An EstimatedCall with its StopPointRef and its timestamps: aimed is
\* <<AimedArrivalTime, AimedDepartureTime>>, expected is
\* <<ExpectedArrivalTime, ExpectedDepartureTime>>.
TimedCall(stop, aimed, expected) ==
    [isdict |-> TRUE, line |-> << >>, stop |-> stop, child |-> Absent,
     aimed |-> aimed, expected |-> expected]

\* An EstimatedCall due two minutes after the snapshot and expected 30 s late.
Call(stop) ==
    TimedCall(stop, <<Iso(SnapshotAt + 120, 0), NoText>>, <<Iso(SnapshotAt + 150, 0), NoText>>)

LowerCase ==
    <<"a", "b", "c", "d", "e", "f", "g", "h", "i", "j", "k", "l", "m",
      "n", "o", "p", "q", "r", "s", "t", "u", "v", "w", "x", "y", "z">>

UpperCase ==
    <<"A", "B", "C", "D", "E", "F", "G", "H", "I", "J", "K", "L", "M",
      "N", "O", "P", "Q", "R", "S", "T", "U", "V", "W", "X", "Y", "Z">>

\* The upper-case form of a character (re.IGNORECASE compares these).
Upper(c) ==
    IF \E i \in 1..Len(LowerCase) : LowerCase[i] = c
    THEN UpperCase[CHOOSE i \in 1..Len(LowerCase) : LowerCase[i] = c]
    ELSE c

\* \s, and the characters str.strip() removes.
IsSpace(c) == c \in {" ", "\t", "\n"}

RECURSIVE LStrip(_)
LStrip(s) == IF s # << >> /\ IsSpace(s[1]) THEN LStrip(Tail(s)) ELSE s

RECURSIVE RStrip(_)
RStrip(s) ==
    IF s # << >> /\ IsSpace(s[Len(s)]) THEN RStrip(SubSeq(s, 1, Len(s) - 1)) ELSE s

\* str.strip()
Strip(s) == LStrip(RStrip(s))

\* A line-name match that tells upper case from lower case.
is_rer_line_case_sensitive(line_code) ==
    LET t == Strip(line_code)
    IN  /\ line_code # << >>
        /\ Len(t) >= 5
        /\ <<t[1], t[2], t[3]>> = <<"R", "E", "R">>
        /\ \A i \in 4..(Len(t) - 1) : IsSpace(t[i])
        /\ t[Len(t)] \in {"A", "B", "C", "D", "E"}

\* siri_flatten._is_rer_line: re.match(r"^\s*RER\s+([A-E])\s*$",
\* line_code.strip(), flags=re.IGNORECASE), False for the empty string.
_is_rer_line(line_code) ==
    LET t == Strip(line_code)
    IN  /\ line_code # << >>
        /\ Len(t) >= 5
        /\ <<Upper(t[1]), Upper(t[2]), Upper(t[3])>> = <<"R", "E", "R">>
        /\ \A i \in 4..(Len(t) - 1) : IsSpace(t[i])
        /\ Upper(t[Len(t)]) \in {"A", "B", "C", "D", "E"}

\* The outcome of a stretch of code: the events appended to out, or an
\* exception that leaves the function.
Done(out) == [raised |-> FALSE, error |-> "", out |-> out]

Raised(error) == [raised |-> TRUE, error |-> error, out |-> << >>]

\* A pick that looks at the first key only.
PickFirstOnly(times) == IF times[1].kind \in {"bad", "iso"} THEN times[1] ELSE NoText

\* A pick that asks for the second key before the first.
PickDepartureFirst(times) ==
    IF times[2].kind \in {"bad", "iso"} THEN times[2]
    ELSE IF times[1].kind \in {"bad", "iso"} THEN times[1]
    ELSE NoText

\* siri_flatten._pick_time: the first of the two values that is a
\* non-blank string, None (NoText) when there is none.
_pick_time(times) ==
    IF times[1].kind \in {"bad", "iso"} THEN times[1]
    ELSE IF times[2].kind \in {"bad", "iso"} THEN times[2]
    ELSE NoText

\* siri_flatten._parse_utc: the instant of an ISO-8601 string in UTC,
\* None for anything else.
_parse_utc(ts) == IF ts.kind = "iso" THEN Some(ts.wall - ts.offset) ELSE Null

\* A string field of an event: dt.isoformat() with "Z", or "".
IsoFormat(t) == [kind |-> "iso", at |-> t]

EmptyString == [kind |-> "empty", at |-> 0]

\* The None of a string field.
NoString == [kind |-> "None", at |-> 0]

\* The flattened event of one stop call of a journey of the given line,
\* snap_dt being the snapshot instant (lines 99 to 130; names, direction
\* and journey id are left out).
EventOf(c, line_code, snap_dt) ==
    LET aimed_dt == _parse_utc(_pick_time(c.aimed))
        exp_dt == _parse_utc(_pick_time(c.expected))
    IN  [snapshot_at_utc |-> IsoFormat(snap_dt),
         stop_id |-> c.stop,
         line_code |-> line_code,
         scheduled_time_utc |-> IF aimed_dt # Null THEN IsoFormat(aimed_dt[1]) ELSE EmptyString,
         rt_time_utc |-> IF exp_dt # Null THEN IsoFormat(exp_dt[1]) ELSE EmptyString,
         delay_seconds |-> IF aimed_dt # Null /\ exp_dt # Null
                           THEN Some(exp_dt[1] - aimed_dt[1]) ELSE Null,
         lead_time_seconds |-> IF aimed_dt # Null THEN Some(aimed_dt[1] - snap_dt) ELSE Null]

\* A value under a key left as it is, but for the default [].
KeepAsIs(c) == IF c.kind = "absent" THEN Many(<< >>) ELSE c

\* The value under a key coerced as the flattener coerces it: an absent
\* key is the default [], a dict becomes the one-element list [dict].
Coerce(c) ==
    IF c.kind = "absent" THEN Many(<< >>)
    ELSE IF c.kind = "dict" THEN Many(c.items)
    ELSE c

\* isinstance(x, list) after the coercion; anything else is skipped.
IsListLike(c) == Coerce(c).kind = "list"

\* The loops of flatten_estimated_timetable over the elements of one
\* level (1 deliveries, 2 frames, 3 journeys, 4 stop calls).  Every
\* element is asked .get(...), which a non-dict does not have.
RECURSIVE FlattenLevel(_, _, _, _)
FlattenLevel(level, items, line_code, snap_dt) ==
    IF items = << >> THEN Done(<< >>)
    ELSE LET e == items[1]
             line == Strip(e.line)
             first ==
                 IF ~e.isdict THEN Raised("AttributeError")
                 ELSE IF level = 4 THEN Done(<<EventOf(e, line_code, snap_dt)>>)
                 ELSE IF level = 3 /\ ~_is_rer_line(line) THEN Done(<< >>)
                 ELSE IF ~IsListLike(e.child) THEN Done(<< >>)
                 ELSE FlattenLevel(level + 1, Coerce(e.child).items,
                                   IF level = 3 THEN line ELSE line_code, snap_dt)
         IN  IF first.raised THEN first
             ELSE LET rest == FlattenLevel(level, Tail(items), line_code, snap_dt)
                  IN  IF rest.raised THEN rest ELSE Done(first.out \o rest.out)

\* siri_flatten.flatten_estimated_timetable(payload), utc_now being what
\* datetime.now(timezone.utc) reads during the call.  siri and sd fall
\* back to {} when the level above is no dict or lacks the key; a
\* ServiceDelivery that is present and no dict is asked .get(...).  The
\* snapshot instant is the parsed ResponseTimestamp, and the clock reading
\* when there is none to parse (lines 51 to 55).
flatten_estimated_timetable(payload, utc_now) ==
    LET siri == IF payload.top = "dict" /\ payload.siri # "absent" THEN payload.siri ELSE "empty"
        service == IF siri = "dict" /\ payload.sd # "absent" THEN payload.sd ELSE "empty"
        snap_ts == IF service = "dict" THEN payload.snapshot ELSE NoText
        parsed == _parse_utc(snap_ts)
        snap_dt == IF parsed # Null THEN parsed[1] ELSE utc_now
        deliveries == IF service = "dict" THEN payload.deliveries ELSE Absent
    IN  IF service = "other" THEN Raised("AttributeError")
        ELSE IF ~IsListLike(deliveries) THEN Done(<< >>)
        ELSE FlattenLevel(1, Coerce(deliveries).items, << >>, snap_dt)

\* Settings.lead_time_horizon_s
lead_time_horizon_s == 600

\* str.startswith("RER "): the four characters as they are written.
StartsWithRER(line_code) ==
    Len(line_code) >= 4 /\ SubSeq(line_code, 1, 4) = <<"R", "E", "R", " ">>

\* Series.notna() of a string field: "" is a value, None is not.
NotNa(x) == x.kind # "None"

\* Series.between(left, right): both bounds included, False for a missing value.
Between(x, left, right) == x # Null /\ left <= x[1] /\ x[1] <= right

\* A filter without line 56: events lacking a delay or a scheduled time
\* are not looked for.
FilterIgnoringTimes(df, horizon) ==
    LET rer == SelectSeq(df, LAMBDA e : StartsWithRER(e.line_code))
    IN  IF df = << >> THEN df
        ELSE SelectSeq(rer, LAMBDA e : Between(e.lead_time_seconds, 0, horizon))

\* Lines 48 to 61 of build_rer_events as they act on a DataFrame df of
\* events: an empty frame is returned as it is; else the rows of lines
\* starting with "RER ", with a delay and a scheduled time, and with a lead
\* time within the horizon are kept, in order.
FilterEvents(df, horizon) ==
    LET rer == SelectSeq(df, LAMBDA e : StartsWithRER(e.line_code))
        timed == SelectSeq(rer, LAMBDA e : e.delay_seconds # Null /\ NotNa(e.scheduled_time_utc))
    IN  IF df = << >> THEN df
        ELSE SelectSeq(timed, LAMBDA e : Between(e.lead_time_seconds, 0, horizon))

\* polling_pipeline.build_rer_events after the fetch: the flattener's list
\* is used as a DataFrame, and "df.empty" is no attribute of a list, so
\* line 48 raises and the filter below it is never run.
build_rer_events(payload, utc_now) ==
    LET df == flatten_estimated_timetable(payload, utc_now)
    IN  IF df.raised THEN df ELSE Raised("AttributeError")

\* No direct call of a stateless function has been made.
NoFn == [op |-> "none", arg |-> << >>, result |-> << >>, now |-> 0]

\* A poll cycle that has not started: its position, the payload fetched,
\* the clock reading of the flattener, the events built, the rows
\* aggregated, the two paths, the exception that ended it, the stages
\* entered so far, and the ledger as it was when the cycle started.
IdleCycle ==
    [pc |-> "idle", payload |-> 0, events |-> << >>, error |-> "",
     files |-> << >>, daily |-> << >>, now |-> 0, bin_sec |-> 0,
     rows |-> << >>, raw_path |-> None, daily_path |-> None, stages |-> << >>]

\* An EstimatedCall due lead seconds after the snapshot, expected 30 s late.
LeadCall(stop, lead) ==
    TimedCall(stop, <<Iso(SnapshotAt + lead, 0), NoText>>,
              <<Iso(SnapshotAt + lead + 30, 0), NoText>>)

\* Line names of the model.
RER_B == <<"R", "E", "R", " ", "B">>

Transilien == <<"T", "r", "a", "n", "s", "i", "l", "i", "e", "n">>

\* A payload: the kinds of its top levels, its ResponseTimestamp (here
\* the snapshot instant of the model) and its deliveries.
Payload(top, siri, service, deliveries) ==
    [top |-> top, siri |-> siri, sd |-> service, snapshot |-> Iso(SnapshotAt, 0),
     deliveries |-> deliveries]

\* The payload with another value under ResponseTimestamp.
Stamped(payload, snap_ts) == [payload EXCEPT !.snapshot = snap_ts]

\* Readings of datetime.now(timezone.utc) while a payload fetched at the
\* snapshot instant is flattened: one and two seconds after it.
UtcNow == {SnapshotAt + 1, SnapshotAt + 2}

\* A well-formed payload down to the given EstimatedCall container of one
\* RER B journey.
WithCalls(calls) ==
    Payload("dict", "dict", "dict", Many(<<Node(Many(<<Node(Many(<<Journey(RER_B, calls)>>))>>))>>))

\* The payloads of the model, well formed ones first.
Payloads ==
    << WithCalls(Many(<<Call(1), Call(0)>>)),
       Payload("dict", "dict", "dict", One(Node(One(Node(One(Journey(RER_B, One(Call(1))))))))),
       WithCalls(Many(<< >>)),
       \* top-level keys missing or of the wrong type
       Payload("other", "absent", "absent", Absent),
       Payload("dict", "absent", "absent", Absent),
       Payload("dict", "other", "absent", Absent),
       Payload("dict", "dict", "absent", Absent),
       Payload("dict", "dict", "other", Absent),
       Payload("dict", "dict", "dict", Absent),
       \* wrongly shaped nested elements
       Payload("dict", "dict", "dict", Other),
       Payload("dict", "dict", "dict", Many(<<NotADict>>)),
       Payload("dict", "dict", "dict", Many(<<Node(Other)>>)),
       Payload("dict", "dict", "dict", Many(<<Node(Many(<<NotADict>>))>>)),
       Payload("dict", "dict", "dict", Many(<<Node(Many(<<Node(Other)>>))>>)),
       Payload("dict", "dict", "dict", Many(<<Node(Many(<<Node(Many(<<NotADict>>))>>))>>)),
       WithCalls(Other),
       WithCalls(Many(<<Call(1), NotADict>>)),
       Payload("dict", "dict", "dict",
               Many(<<Node(Many(<<Node(Many(<<Journey(Transilien, Many(<<NotADict>>))>>))>>))>>)),
       \* stop calls due 1 s before the snapshot, at the snapshot, at the
       \* horizon and 1 s past it
       WithCalls(Many(<<LeadCall(1, 0 - 1), LeadCall(0, 0)>>)),
       WithCalls(Many(<<LeadCall(1, lead_time_horizon_s), LeadCall(0, lead_time_horizon_s + 1)>>)),
       \* a journey of line "rer b", and one of "RER", a tab, "C"
       Payload("dict", "dict", "dict",
               Many(<<Node(Many(<<Node(Many(<<Journey(<<"r", "e", "r", " ", "b">>,
                                                      Many(<<Call(1)>>)),
                                              Journey(<<"R", "E", "R", "\t", "C">>,
                                                      Many(<<Call(1)>>))>>))>>))>>)),
       \* a stop call without aimed times, a complete one, and one without
       \* expected times
       WithCalls(Many(<<TimedCall(1, NoTimes, <<Iso(SnapshotAt + 150, 0), NoText>>),
                        Call(0),
                        TimedCall(1, <<NoText, Iso(SnapshotAt + 120, 0)>>, NoTimes)>>)) >>

----------------------------------------------------------------------------
(* The ledger as a state machine: direct calls of the two file operations. *)

NoCall == [op |-> "none", rows |-> << >>, ret |-> None, bin_sec |-> 0,
           files |-> << >>, daily |-> << >>]

IdleDay == [pc |-> "idle", local_ts |-> 0, cutoff_h |-> 0, cutoff_m |-> 0, day |-> 0]

InitLedger ==
    /\ files = << >>
    /\ daily = << >>
    /\ last = NoCall
    /\ nRows = 0
    /\ sd = IdleDay
    /\ http = IdleHttp
    /\ cycle = IdleCycle
    /\ fn = NoFn

\* A call append_raw_poll_rows(rows, settings).
AppendCall(rows) ==
    /\ LET res == append_raw_poll_rows(files, rows)
       IN  /\ files' = res.files
           /\ last' = [op |-> "append", rows |-> rows, ret |-> res.ret, bin_sec |-> 0,
                       files |-> files, daily |-> daily]
    /\ nRows' = nRows + Len(rows)
    /\ UNCHANGED <<daily, sd, http, cycle, fn>>

\* A call rebuild_daily_from_raw(raw_path, settings, bin_sec) on an existing ledger file.
RebuildCall(raw_path, bin_sec) ==
    /\ raw_path \in DOMAIN files
    /\ daily' = rebuild_daily_from_raw(files, daily, raw_path, bin_sec)
    /\ last' = [op |-> "rebuild", rows |-> << >>, ret |-> raw_path, bin_sec |-> bin_sec,
                files |-> files, daily |-> daily]
    /\ UNCHANGED <<files, nRows, sd, http, cycle, fn>>

NextLedger ==
    \/ \E rows \in RowFrames(MaxRows - nRows) : AppendCall(rows)
    \/ \E raw_path \in DOMAIN files, bin_sec \in BinSecs : RebuildCall(raw_path, bin_sec)

SpecLedger == InitLedger /\ [][NextLedger]_vars

----------------------------------------------------------------------------
(* Claims about the ledger and the rebinner, checked under SpecLedger.     *)

\* The number of elements of s equal to x.
Count(s, x) == Cardinality({i \in 1..Len(s) : s[i] = x})

\* Two files hold the same rows, each as many times.
SameRows(a, b) ==
    /\ Len(a) = Len(b)
    /\ \A i \in 1..Len(a) : Count(a, a[i]) = Count(b, a[i])

\* The rows of a file that carry the key k.
WithKey(text, k) == {i \in 1..Len(text) : KeyOf(text[i]) = k}

\* The last call was append_raw_poll_rows with a non-empty frame whose
\* target file already existed.
MergedInto == last.op = "append" /\ last.rows # << >> /\ last.ret \in DOMAIN last.files

\* C1: re-appending a row set to a ledger file that holds exactly its rows
\* leaves the row count and every value of the store unchanged.
C1_AppendIdempotent ==
    (MergedInto /\ SameRows(last.files[last.ret], ToCsv(last.rows))) => files = last.files

\* C2: when an appended row has the key of a row already in the ledger file
\* with other measures, the file afterwards holds exactly one row of that
\* key, and it is the appended row (the last one of that key in the frame).
C2_LastWriteWins ==
    MergedInto =>
        \A i \in 1..Len(last.rows) :
            LET new == ToCsv(last.rows)
                k == KeyOf(new[i])
                old == last.files[last.ret]
                now == files[last.ret]
            IN  (/\ \A j \in (i + 1)..Len(new) : KeyOf(new[j]) # k
                 /\ \E o \in WithKey(old, k) : old[o] # new[i])
                => /\ Cardinality(WithKey(now, k)) = 1
                   /\ \A x \in WithKey(now, k) : now[x] = new[i]

\* C3: every ledger file holds at most one row per (poll_at_utc, stop_id,
\* line_code), after any sequence of appends.
C3_KeyUnique ==
    \A d \in DOMAIN files :
        \A i, j \in 1..Len(files[d]) : KeyOf(files[d][i]) = KeyOf(files[d][j]) => i = j

\* C5: every ledger file is sorted by (poll_at_utc, stop_id, line_code).
C5_FileSorted ==
    \A d \in DOMAIN files :
        \A i \in 1..(Len(files[d]) - 1) : KeyLeq(files[d][i], files[d][i + 1])

\* C6: appending an empty or absent frame returns no path and leaves every
\* ledger and daily file as it was, creating none.
C6_EmptyAppendNoOp ==
    (last.op = "append" /\ last.rows = << >>) =>
        /\ last.ret = None
        /\ files = last.files
        /\ daily = last.daily

\* C6 witness: an empty frame was appended while ledger files existed.
C6_Witness ==
    /\ last.op = "append"
    /\ last.rows = << >>
    /\ \E d \in DOMAIN files : files[d] # << >>

\* The rows of a ledger file that fall into a daily bin row.
InBin(text, b, bin_sec) ==
    {i \in 1..Len(text) :
        /\ BinStart(text[i], bin_sec) = b.poll_bin_local
        /\ text[i].stop_id = b.stop_id
        /\ text[i].line_code = b.line_code}

\* The sum of f[i] over the indices in I.
RECURSIVE SumSet(_, _)
SumSet(I, f) ==
    IF I = {} THEN 0
    ELSE LET i == CHOOSE x \in I : TRUE IN f[i] + SumSet(I \ {i}, f)

\* x is total / count rounded to the nearest integer (either way on a tie).
IsRounded(x, total, count) ==
    /\ 2 * (x * count - total) <= count
    /\ 2 * (total - x * count) <= count

\* C10: after a rebuild, every daily bin of positive count carries the
\* count-weighted means sum(mean_i * n_i) / sum(n_i) of the ledger rows in
\* the bin, to the three decimals the file keeps.
C10_CountWeighted ==
    last.op = "rebuild" =>
        \A k \in 1..Len(daily[last.ret]) :
            LET b == daily[last.ret][k]
                text == files[last.ret]
                I == InBin(text, b, last.bin_sec)
                count == SumSet(I, [i \in I |-> text[i].n])
            IN  b.n > 0 =>
                /\ b.n = count
                /\ b.mean_delay_s # Null
                /\ b.mean_lateness_s # Null
                /\ IsRounded(b.mean_delay_s[1],
                             SumSet(I, [i \in I |-> text[i].mean_delay_s * text[i].n]), count)
                /\ IsRounded(b.mean_lateness_s[1],
                             SumSet(I, [i \in I |-> text[i].mean_lateness_s * text[i].n]), count)

\* C10 witness: a bin made of the rows (10 s, n = 2) and (20 s, n = 8)
\* carries 18 s, not the plain mean 15 s.
C10_Witness ==
    /\ last.op = "rebuild"
    /\ \E k \in 1..Len(daily[last.ret]) :
          LET b == daily[last.ret][k]
              text == files[last.ret]
              I == InBin(text, b, last.bin_sec)
          IN  /\ Cardinality(I) = 2
              /\ {<<text[i].mean_delay_s, text[i].n>> : i \in I} = {<<10000, 2>>, <<20000, 8>>}
              /\ b.mean_delay_s = Some(18000)
              /\ b.mean_lateness_s = Some(19000)

BinsOf(r, bins, bin_sec) ==
    {k \in 1..Len(bins) :
        /\ bins[k].poll_bin_local = BinStart(r, bin_sec)
        /\ bins[k].stop_id = r.stop_id
        /\ bins[k].line_code = r.line_code}

\* C13: after a rebuild every ledger row is in exactly one daily bin row,
\* whose counts are the sums over its rows and whose last poll time is
\* their maximum; the counts of the ledger file and the daily file agree.
C13_CountsConserved ==
    last.op = "rebuild" =>
        LET text == files[last.ret]
            bins == daily[last.ret]
        IN  /\ \A i \in 1..Len(text) : Cardinality(BinsOf(text[i], bins, last.bin_sec)) = 1
            /\ \A k \in 1..Len(bins) :
                  LET I == InBin(text, bins[k], last.bin_sec)
                  IN  /\ bins[k].n = SumSet(I, [i \in I |-> text[i].n])
                      /\ bins[k].n_neg = SumSet(I, [i \in I |-> text[i].n_neg])
                      /\ bins[k].n_pos = SumSet(I, [i \in I |-> text[i].n_pos])
                      /\ \A i \in I : text[i].poll_at_utc <= bins[k].last_poll_at_utc
                      /\ \E i \in I : text[i].poll_at_utc = bins[k].last_poll_at_utc
            /\ SumSeq([k \in 1..Len(bins) |-> bins[k].n])
                  = SumSeq([i \in 1..Len(text) |-> text[i].n])

\* C13 restricted to ledger files without an empty stop id.
C13_CountsConservedNamedStops ==
    (last.op = "rebuild" /\ \A i \in 1..Len(files[last.ret]) : files[last.ret][i].stop_id # 0)
        => C13_CountsConserved

----------------------------------------------------------------------------
(* The rebinner over ledgers that hold polls without a train (n = 0).      *)

\* Measures of a poll row that counts no train: whatever the means say,
\* the weights mean * n are 0.
EmptyMeasures ==
    { [mean_delay_s |-> 30000, mean_lateness_s |-> 30000, n |-> 0, n_neg |-> 0, n_pos |-> 0] }

\* The rows of this model: one stop, polls with and without trains.
RebinRows == {MkRow(t, 1, l, m) : t \in PollTimes, l \in LineCodes, m \in Measures \cup EmptyMeasures}

RebinFrames(k) == UNION {[1..j -> RebinRows] : j \in 0..k}

NextRebin ==
    \/ \E rows \in RebinFrames(MaxRows - nRows) : AppendCall(rows)
    \/ \E raw_path \in DOMAIN files, bin_sec \in BinSecs : RebuildCall(raw_path, bin_sec)

SpecRebin == InitLedger /\ [][NextRebin]_vars

\* C11: after a rebuild, a daily bin whose ledger rows count no train at
\* all exists and carries missing means, neither 0 nor another number.
C11_EmptyBinNullMean ==
    last.op = "rebuild" =>
        /\ \A i \in 1..Len(files[last.ret]) :
              BinsOf(files[last.ret][i], daily[last.ret], last.bin_sec) # {}
        /\ \A k \in 1..Len(daily[last.ret]) :
              LET b == daily[last.ret][k]
                  text == files[last.ret]
                  I == InBin(text, b, last.bin_sec)
              IN  SumSet(I, [i \in I |-> text[i].n]) = 0 =>
                      /\ b.n = 0
                      /\ b.mean_delay_s = Null
                      /\ b.mean_lateness_s = Null

\* C11 witness: a bin made of two polls without a train, rebuilt with
\* missing means.
C11_Witness ==
    /\ last.op = "rebuild"
    /\ \E k \in 1..Len(daily[last.ret]) :
          LET b == daily[last.ret][k]
          IN  /\ Cardinality(InBin(files[last.ret], b, last.bin_sec)) = 2
              /\ b.n = 0
              /\ b.mean_delay_s = Null

----------------------------------------------------------------------------
(* _service_day on its own: calls with any cutoff and poll time.           *)

\* Cutoffs of the model: midnight, the default 02:30, and cutoffs late in
\* the night and late in the evening.
CutoffHours == {0, 2, 3, 23}

CutoffMinutes == {0, 30, 59}

\* The local days [first, last] as instants, minute by minute.
LocalDays(first, final) ==
    {u \in (first * MinutesPerDay - 120)..((final + 1) * MinutesPerDay - 60) :
        DateOf(u) >= first /\ DateOf(u) <= final}

\* Poll instants of the model: an ordinary winter day (2024-01-11), and
\* the days around both 2024 clock changes (2024-03-30 to 04-01 and
\* 2024-10-26 to 10-28).
DayInstants == LocalDays(10, 10) \cup LocalDays(89, 91) \cup LocalDays(299, 301)

InitDay ==
    /\ sd = IdleDay
    /\ files = << >>
    /\ daily = << >>
    /\ last = NoCall
    /\ nRows = 0
    /\ http = IdleHttp
    /\ cycle = IdleCycle
    /\ fn = NoFn

\* A call _service_day(local_ts, cutoff_h, cutoff_m); the function keeps no
\* state, one call per run of the model shows all it does.
ServiceDayCall(local_ts, cutoff_h, cutoff_m) ==
    /\ sd' = [pc |-> "returned", local_ts |-> local_ts, cutoff_h |-> cutoff_h,
              cutoff_m |-> cutoff_m, day |-> _service_day(local_ts, cutoff_h, cutoff_m)]
    /\ UNCHANGED <<http, files, daily, last, nRows, cycle, fn>>

NextDay ==
    /\ sd.pc = "idle"
    /\ \E local_ts \in DayInstants, cutoff_h \in CutoffHours, cutoff_m \in CutoffMinutes :
          ServiceDayCall(local_ts, cutoff_h, cutoff_m)

SpecDay == InitDay /\ [][NextDay]_vars

\* C4: a poll whose local wall-clock time is before the cutoff belongs to
\* the previous calendar day, any other poll to its own calendar day.
C4_ServiceDayCutover ==
    sd.pc = "returned" =>
        sd.day = IF MinuteOfDay(sd.local_ts) < 60 * sd.cutoff_h + sd.cutoff_m
                 THEN DateOf(sd.local_ts) - 1
                 ELSE DateOf(sd.local_ts)

----------------------------------------------------------------------------
(* PrimClient.get_json on its own: any configuration, any run of           *)
(* failures and successes of the HTTP attempts.                            *)

InitFetch ==
    /\ http = IdleHttp
    /\ cycle = IdleCycle
    /\ fn = NoFn
    /\ files = << >>
    /\ daily = << >>
    /\ last = NoCall
    /\ nRows = 0
    /\ sd = IdleDay

\* PrimClient(api_key, max_retries = ..., backoff_s = ...).get_json(url)
\* up to the loop.
ClientCall(max_retries, backoff_s) ==
    /\ http' = NewClient(max_retries, backoff_s)
    /\ UNCHANGED <<cycle, files, daily, last, nRows, sd, fn>>

\* One pass through the loop of get_json.
HttpAttempt ==
    /\ http.pc = "loop"
    /\ http.k < Attempts(http)
    /\ \E outcome \in {"ok"} \cup HttpErrors, payload \in 1..Len(Payloads) :
          http' = get_json_iteration(http, outcome, payload)
    /\ UNCHANGED <<cycle, files, daily, last, nRows, sd, fn>>

\* The loop is over without a return: the raise after it.
HttpExhausted ==
    /\ http.pc = "loop"
    /\ http.k >= Attempts(http)
    /\ http' = get_json_raise(http)
    /\ UNCHANGED <<cycle, files, daily, last, nRows, sd, fn>>

NextFetch ==
    \/ /\ http.pc = "idle"
       /\ \E max_retries \in 0..MaxRetries, backoff_s \in BackoffArgs :
             ClientCall(max_retries, backoff_s)
    \/ HttpAttempt
    \/ HttpExhausted

SpecFetch == InitFetch /\ [][NextFetch]_vars

\* The attempts of the call that failed.
Failed(h) == {i \in 1..Len(h.requests) : h.requests[i] # "ok"}

\* C8: get_json raises only after min(max_retries, len(backoff)) attempts,
\* all of them failed, and the error raised carries the error of the last
\* attempt (no error at all when that number is zero).
C8_RaisesAfterAllAttempts ==
    http.pc = "raised" =>
        /\ Len(http.requests) = Min(http.max_retries, Len(http.backoff))
        /\ Failed(http) = 1..Len(http.requests)
        /\ IF http.requests = << >>
           THEN http.error = NoErr
           ELSE http.error = [kind |-> http.requests[Len(http.requests)],
                              attempt |-> Len(http.requests)]

\* C8 witness: three attempts failed in different ways, the last with a
\* non-2xx status, and get_json raised.
C8_Witness ==
    /\ http.pc = "raised"
    /\ http.requests = <<"transport", "decode", "status">>
    /\ http.error = [kind |-> "status", attempt |-> 3]

\* get_json is one sequential loop: an iteration sleeps a finite time and
\* sends one request under a timeout, so the step that is due is taken.
SpecFetchLive ==
    InitFetch /\ [][NextFetch]_vars /\ WF_vars(HttpAttempt) /\ WF_vars(HttpExhausted)

\* The positive entries of a sequence, in order: the waits time.sleep is
\* called for.
Waits(schedule) == SelectSeq(schedule, LAMBDA d : d > 0)

\* What get_json has done so far is within its budget: at most
\* min(max_retries, len(backoff)) requests, the k-th schedule entry waited
\* before the k-th request, no request after a successful one, a return
\* only with the payload of a successful request, and with max_retries 0
\* a raise without any request.
WithinBudget ==
    /\ Len(http.requests) <= Min(http.max_retries, Len(http.backoff))
    /\ http.sleeps = Waits(SubSeq(http.backoff, 1, Len(http.requests)))
    /\ \A i \in 1..Len(http.requests) :
          http.requests[i] = "ok" => (i = Len(http.requests) /\ http.pc = "returned")
    /\ http.pc = "returned" =>
          /\ http.requests # << >>
          /\ http.requests[Len(http.requests)] = "ok"
          /\ http.result \in 1..Len(Payloads)
    /\ (http.pc \in {"returned", "raised"} /\ http.max_retries = 0) =>
          (http.pc = "raised" /\ http.requests = << >>)

\* C30: get_json always terminates, by a return or a raise, and stays
\* within its budget of requests and waits all along.
C30_TerminatesWithinBudget ==
    /\ []WithinBudget
    /\ (http.pc = "loop") ~> (http.pc \in {"returned", "raised"})

\* C30 witness: with max_retries 5 and the default schedule the third
\* request succeeded after waits of 1 s and 2 s, and get_json returned.
C30_Witness ==
    /\ http.pc = "returned"
    /\ http.max_retries = 5
    /\ http.backoff = DefaultBackoff
    /\ http.requests = <<"transport", "status", "ok">>
    /\ http.sleeps = <<1, 2>>

----------------------------------------------------------------------------
(* One poll cycle, run_one_poll, over a ledger that earlier cycles left.   *)

\* fetch_estimated_timetable_json(settings): a PrimClient with the default
\* retries and schedule, and get_json on the estimated-timetable URL.
fetch_estimated_timetable_json == NewClient(DefaultMaxRetries, << >>)

\* A failed fetch that run_one_poll swallows, going on without a payload.
FetchErrorSwallowed(c) == [c EXCEPT !.pc = "fetched", !.payload = 5]

\* build_rer_events line 45 and run_one_poll line 204 have no except
\* clause: the RuntimeError of the fetch leaves run_one_poll.
FetchErrorPropagates(c) == [c EXCEPT !.pc = "raised", !.error = "RuntimeError"]

\* Ledgers an earlier cycle can have left: nothing, or one raw file, with
\* or without its daily file.
InitPoll ==
    /\ \E rows \in RowFrames(1), rebuilt \in BOOLEAN :
          LET res == append_raw_poll_rows(<< >>, rows)
          IN  /\ files = res.files
              /\ daily = IF rebuilt /\ res.ret # None
                         THEN rebuild_daily_from_raw(res.files, << >>, res.ret, 300)
                         ELSE << >>
    /\ http = IdleHttp
    /\ cycle = IdleCycle
    /\ fn = NoFn
    /\ last = NoCall
    /\ nRows = 0
    /\ sd = IdleDay

\* run_one_poll enters build_rer_events, which calls the fetch.
PollStart ==
    /\ cycle.pc = "idle"
    /\ cycle' = [cycle EXCEPT !.pc = "fetch", !.files = files, !.daily = daily,
                              !.stages = <<"fetch">>]
    /\ http' = fetch_estimated_timetable_json
    /\ UNCHANGED <<files, daily, last, nRows, sd, fn>>

\* The fetch returned a payload (line 45).
FetchReturned ==
    /\ cycle.pc = "fetch"
    /\ http.pc = "returned"
    /\ cycle' = [cycle EXCEPT !.pc = "fetched", !.payload = http.result]
    /\ UNCHANGED <<http, files, daily, last, nRows, sd, fn>>

\* The fetch raised (line 45).
FetchRaised ==
    /\ cycle.pc = "fetch"
    /\ http.pc = "raised"
    /\ cycle' = FetchErrorPropagates(cycle)
    /\ UNCHANGED <<http, files, daily, last, nRows, sd, fn>>

\* The rest of build_rer_events (lines 46 to 61) on the fetched payload.
BuildEvents ==
    /\ cycle.pc = "fetched"
    /\ \E utc_now \in UtcNow :
          LET res == build_rer_events(Payloads[cycle.payload], utc_now)
          IN  cycle' = IF res.raised
                       THEN [cycle EXCEPT !.pc = "raised", !.error = res.error,
                                          !.now = utc_now,
                                          !.stages = <<"fetch", "flatten">>]
                       ELSE [cycle EXCEPT !.pc = "built", !.events = res.out,
                                          !.now = utc_now,
                                          !.stages = <<"fetch", "flatten", "filter">>]
    /\ UNCHANGED <<http, files, daily, last, nRows, sd, fn>>

NextPoll ==
    \/ PollStart
    \/ /\ cycle.pc = "fetch"
       /\ HttpAttempt
    \/ /\ cycle.pc = "fetch"
       /\ HttpExhausted
    \/ FetchReturned
    \/ FetchRaised
    \/ BuildEvents

SpecPoll == InitPoll /\ [][NextPoll]_vars

\* C7: once the fetch has failed after all its attempts, the cycle is over
\* with the fetch's error raised to the caller, and the raw and the daily
\* files are what they were when the cycle started.
C7_FetchFailureAborts ==
    (http.pc = "raised" /\ cycle.pc # "fetch") =>
        /\ cycle.pc = "raised"
        /\ cycle.error = "RuntimeError"
        /\ files = cycle.files
        /\ daily = cycle.daily

\* C7 witness: a cycle over a ledger with a raw and a daily file ended by
\* a fetch whose three attempts all failed.
C7_Witness ==
    /\ cycle.pc = "raised"
    /\ http.pc = "raised"
    /\ Len(http.requests) = DefaultMaxRetries
    /\ DOMAIN files # {}
    /\ DOMAIN daily # {}

\* The container lacks what the flattener expects at this level or below:
\* it is no dict and no list, or one of its elements is no dict.
RECURSIVE BadShape(_, _)
BadShape(c, level) ==
    \/ c.kind = "other"
    \/ \E i \in 1..Len(c.items) :
          \/ ~c.items[i].isdict
          \/ level < 4 /\ BadShape(c.items[i].child, level + 1)

\* A payload that lacks an expected top-level key or has a wrongly shaped
\* nested element.
Malformed(payload) ==
    \/ payload.top # "dict"
    \/ payload.siri # "dict"
    \/ payload.sd # "dict"
    \/ payload.deliveries.kind = "absent"
    \/ BadShape(payload.deliveries, 1)

\* C9: the stages after the fetch never raise on a malformed payload; they
\* yield zero events and leave the ledger as it was.
C9_MalformedNeverRaises ==
    (cycle.pc \in {"built", "raised"} /\ http.pc = "returned"
         /\ Malformed(Payloads[cycle.payload])) =>
        /\ cycle.pc = "built"
        /\ cycle.events = << >>
        /\ files = cycle.files
        /\ daily = cycle.daily

----------------------------------------------------------------------------
(* _is_rer_line on its own: calls with line names of many forms.           *)

\* The line names of the model, put together from leading whitespace, a
\* word, a separator, a letter and a tail; "Transilien" and the empty
\* string are among them.
LineNames ==
    LET LineLeads == {<< >>, <<" ">>, <<"\t", " ">>}
        LineWords == {<<"R", "E", "R">>, <<"r", "e", "r">>, <<"R", "e", "r">>,
                      <<"R", "E">>, <<"R", "E", "R", "R">>, <<"T", "E", "R">>}
        LineSeparators == {<< >>, <<" ">>, <<" ", " ">>, <<"\t">>, <<"-">>}
        LineLetters == {<<"A">>, <<"B">>, <<"E">>, <<"F">>, <<"b">>, <<"c">>, <<"f">>,
                        <<"A", "B">>, << >>, <<"1">>}
        LineTails == {<< >>, <<" ">>, <<"\n">>, <<" ", "x">>}
    IN  {a \o b \o c \o d \o e :
            a \in LineLeads, b \in LineWords, c \in LineSeparators,
            d \in LineLetters, e \in LineTails}
        \cup {Transilien, << >>}

\* A call _is_rer_line(line_code).
IsRerLineCall(line_code) ==
    /\ fn' = [op |-> "_is_rer_line", arg |-> line_code, result |-> _is_rer_line(line_code),
              now |-> 0]
    /\ UNCHANGED <<sd, http, files, daily, last, nRows, cycle>>

NextLine ==
    /\ fn.op = "none"
    /\ \E line_code \in LineNames : IsRerLineCall(line_code)

SpecLine == InitFetch /\ [][NextLine]_vars

\* The text without the blanks (space, tab, newline) at either end.
RECURSIVE Trimmed(_)
Trimmed(s) ==
    IF s = << >> THEN s
    ELSE IF s[1] \in {" ", "\t", "\n"} THEN Trimmed(Tail(s))
    ELSE IF s[Len(s)] \in {" ", "\t", "\n"} THEN Trimmed(SubSeq(s, 1, Len(s) - 1))
    ELSE s

\* The text in upper case.
UpperText(s) == [i \in 1..Len(s) |-> Upper(s[i])]

\* The five-character names "RER A" to "RER E".
RerNames == {<<"R", "E", "R", " ", x>> : x \in {"A", "B", "C", "D", "E"}}

----------------------------------------------------------------------------
(* flatten_estimated_timetable on its own: payloads of every mix of        *)
(* single objects and lists, with stop calls of every mix of timestamps.   *)

\* How a nesting level holds its one element: as the object itself or as a
\* list of it.
Forms == {"object", "list"}

Wrap(form, e) == IF form = "object" THEN One(e) ELSE Many(<<e>>)

\* Line names of the journeys: "RER B", "rer b", "Transilien".
JourneyLines == {RER_B, <<"r", "e", "r", " ", "b">>, Transilien}

\* A payload of one delivery, one frame, one journey and one stop call.
ShapedPayload(f1, f2, f3, f4, line, call) ==
    Payload("dict", "dict", "dict",
            Wrap(f1, Node(Wrap(f2, Node(Wrap(f3, Journey(line, Wrap(f4, call))))))))

\* The aimed times are drawn from values of a timestamp key where
\* 01:31:00Z is given as such and as 02:31:00+01:00 and 01:32:00Z is
\* another instant; the expected arrival and departure from fewer values.
FlattenPayloads ==
    LET TimeTexts == {NoText, BlankText, BadText, Iso(SnapshotAt + 120, 0),
                      Iso(SnapshotAt + 3720, 3600), Iso(SnapshotAt + 180, 0)}
        ExpectedTexts == {NoText, BlankText, BadText, Iso(SnapshotAt + 150, 0)}
        DepartureTexts == {NoText, Iso(SnapshotAt + 210, 0)}
    IN  {ShapedPayload(f1, f2, f3, f4, line, TimedCall(1, <<a1, a2>>, <<e1, e2>>)) :
            f1 \in Forms, f2 \in Forms, f3 \in Forms, f4 \in Forms, line \in JourneyLines,
            a1 \in TimeTexts, a2 \in TimeTexts, e1 \in ExpectedTexts, e2 \in DepartureTexts}
        \cup {Payloads[i] : i \in 1..Len(Payloads)}

\* A call flatten_estimated_timetable(payload) while the clock reads utc_now.
FlattenCall(payload, utc_now) ==
    /\ fn' = [op |-> "flatten", arg |-> payload,
              result |-> flatten_estimated_timetable(payload, utc_now), now |-> utc_now]
    /\ UNCHANGED <<sd, http, files, daily, last, nRows, cycle>>

NextFlatten ==
    /\ fn.op = "none"
    /\ \E payload \in FlattenPayloads, utc_now \in UtcNow : FlattenCall(payload, utc_now)

SpecFlatten == InitFetch /\ [][NextFlatten]_vars

\* The container with every single object at the given nesting level (1
\* deliveries to 4 stop calls; at is the level of c) written as a
\* one-element list.
RECURSIVE ListAt(_, _, _)
ListAt(c, level, at) ==
    IF at = level
    THEN (IF c.kind = "dict" THEN [kind |-> "list", items |-> c.items] ELSE c)
    ELSE [c EXCEPT !.items = [i \in 1..Len(c.items) |->
                                [c.items[i] EXCEPT !.child = ListAt(c.items[i].child, level, at + 1)]]]

\* The payload with the single objects of one level written as lists.
PayloadListAt(payload, level) ==
    [payload EXCEPT !.deliveries = ListAt(payload.deliveries, level, 1)]

\* C19: at each of the four nesting levels, a payload holding a single
\* object flattens to what the payload holding the one-element list of
\* that object flattens to.
C19_ObjectAsOneElementList ==
    fn.op = "flatten" =>
        \A level \in 1..4 :
            fn.result = flatten_estimated_timetable(PayloadListAt(fn.arg, level), fn.now)

\* C19 witness: a payload with a single object at every level was
\* flattened to one event.
C19_Witness ==
    /\ fn.op = "flatten"
    /\ fn.arg.deliveries.kind = "dict"
    /\ \A level \in 1..4 : PayloadListAt(fn.arg, level) # fn.arg
    /\ ~fn.result.raised
    /\ Len(fn.result.out) = 1

\* The stop calls of the RER journeys under a container, in order, each
\* with the line name of its journey; at is the level of c.
RECURSIVE RerCalls(_, _, _)
RerCalls(c, at, line) ==
    IF c.kind \notin {"dict", "list"} \/ c.items = << >> THEN << >>
    ELSE LET e == c.items[1]
             rest == RerCalls([c EXCEPT !.items = Tail(c.items)], at, line)
             here == IF at = 4 THEN <<[call |-> e, line |-> line]>>
                     ELSE IF at = 3 /\ ~_is_rer_line(Trimmed(e.line)) THEN << >>
                     ELSE RerCalls(e.child, at + 1, IF at = 3 THEN Trimmed(e.line) ELSE line)
         IN  here \o rest

\* The timestamp string the flattener reads from two keys: the first that
\* is a non-blank string.
FirstString(times) ==
    LET I == {i \in 1..2 : times[i].kind \notin {"none", "blank"}}
    IN  IF I = {} THEN NoText ELSE times[CHOOSE i \in I : \A j \in I : i <= j]

\* The event carries what the timestamps of the call say, and missing where
\* they say nothing; missing is the given value in the two string fields.
EventMatchesCall(ev, c, missing) ==
    LET aimed == FirstString(c.aimed)
        expected == FirstString(c.expected)
    IN  /\ ev.stop_id = c.stop
        /\ ev.scheduled_time_utc = IF aimed.kind = "iso"
                                   THEN IsoFormat(aimed.wall - aimed.offset) ELSE missing
        /\ ev.rt_time_utc = IF expected.kind = "iso"
                            THEN IsoFormat(expected.wall - expected.offset) ELSE missing
        /\ ev.lead_time_seconds = IF aimed.kind = "iso"
                                  THEN Some(aimed.wall - aimed.offset - SnapshotAt) ELSE Null
        /\ ev.delay_seconds = IF aimed.kind = "iso" /\ expected.kind = "iso"
                              THEN Some((expected.wall - expected.offset)
                                        - (aimed.wall - aimed.offset))
                              ELSE Null

\* One event per stop call of an RER journey, in order, each matching its call.
OneEventPerCall(missing) ==
    (fn.op = "flatten" /\ ~fn.result.raised) =>
        LET calls == RerCalls(fn.arg.deliveries, 1, << >>)
        IN  /\ Len(fn.result.out) = Len(calls)
            /\ \A i \in 1..Len(calls) :
                  /\ fn.result.out[i].line_code = calls[i].line
                  /\ EventMatchesCall(fn.result.out[i], calls[i].call, missing)

Present(t) == t.kind \in {"bad", "iso"}

\* The arrival time when present, else the departure time.
ArrivalElseDeparture(times) == IF Present(times[1]) THEN times[1] ELSE times[2]

\* The string field of a time text: the instant in UTC, or "" when the
\* text is missing or is no timestamp.
FieldOf(t) == IF t.kind = "iso" THEN IsoFormat(t.wall - t.offset) ELSE EmptyString

\* C27: the scheduled time of an event is the aimed arrival time of its
\* stop call when present and else the aimed departure time, the observed
\* time the expected arrival time when present and else the expected
\* departure time; delay_seconds is observed minus scheduled, and null
\* when either is missing.
C27_ArrivalBeforeDeparture ==
    (fn.op = "flatten" /\ ~fn.result.raised) =>
        LET calls == RerCalls(fn.arg.deliveries, 1, << >>)
        IN  /\ Len(fn.result.out) = Len(calls)
            /\ \A i \in 1..Len(calls) :
                  LET ev == fn.result.out[i]
                      scheduled == FieldOf(ArrivalElseDeparture(calls[i].call.aimed))
                      observed == FieldOf(ArrivalElseDeparture(calls[i].call.expected))
                  IN  /\ ev.scheduled_time_utc = scheduled
                      /\ ev.rt_time_utc = observed
                      /\ ev.delay_seconds =
                            IF scheduled # EmptyString /\ observed # EmptyString
                            THEN Some(observed.at - scheduled.at) ELSE Null

\* C27 witness: a stop call with both aimed times and the expected
\* departure time alone: scheduled is the aimed arrival (01:31), observed
\* the expected departure (01:32:30), the delay 90 s.
C27_Witness ==
    /\ fn.op = "flatten"
    /\ ~fn.result.raised
    /\ Len(fn.result.out) = 1
    /\ LET c == RerCalls(fn.arg.deliveries, 1, << >>)[1].call
       IN  /\ c.aimed = <<Iso(SnapshotAt + 120, 0), Iso(SnapshotAt + 180, 0)>>
           /\ c.expected = <<NoText, Iso(SnapshotAt + 210, 0)>>
    /\ fn.result.out[1].scheduled_time_utc = IsoFormat(SnapshotAt + 120)
    /\ fn.result.out[1].rt_time_utc = IsoFormat(SnapshotAt + 210)
    /\ fn.result.out[1].delay_seconds = Some(90)

----------------------------------------------------------------------------
(* flatten_estimated_timetable run twice on one payload, the clock moving  *)
(* on between the runs; ResponseTimestamp is there, or missing, or not a   *)
(* timestamp.                                                              *)

\* Values under ResponseTimestamp: none, a blank string, a string that is
\* no timestamp, the snapshot instant as "...Z" and as "...+01:00".
TwicePayloads ==
    LET SnapshotTexts == {NoText, BlankText, BadText, Iso(SnapshotAt, 0),
                          Iso(SnapshotAt + 3600, 3600)}
    IN  {Stamped(Payloads[i], ts) : i \in 1..Len(Payloads), ts \in SnapshotTexts}

\* A second call on the payload of the first, no earlier than the first.
FlattenAgain(utc_now) ==
    /\ fn.op = "flatten"
    /\ utc_now >= fn.now
    /\ fn' = [op |-> "flatten_again", arg |-> fn.arg,
              result |-> flatten_estimated_timetable(fn.arg, utc_now), now |-> utc_now,
              first |-> fn.result]
    /\ UNCHANGED <<sd, http, files, daily, last, nRows, cycle>>

NextTwice ==
    \/ /\ fn.op = "none"
       /\ \E payload \in TwicePayloads, utc_now \in UtcNow : FlattenCall(payload, utc_now)
    \/ \E utc_now \in UtcNow : FlattenAgain(utc_now)

SpecTwice == InitFetch /\ [][NextTwice]_vars

\* C21: two runs of the flattener on the same payload, a payload without
\* snapshot timestamp included, return the same events in the same order
\* with the same field values.
C21_FlattenDeterministic ==
    fn.op = "flatten_again" => fn.result = fn.first

\* The two runs agree whenever ResponseTimestamp is a timestamp.
C21_DeterministicWhenStamped ==
    (fn.op = "flatten_again" /\ fn.arg.snapshot.kind = "iso") => fn.result = fn.first

----------------------------------------------------------------------------
(* The event filter.  Within build_rer_events it is never reached (line 48 *)
(* raises); SpecFilter runs lines 48 to 61 on the flattener's events held  *)
(* as a DataFrame, to tell what the filter lines themselves do.            *)

\* Lines 48 to 61 applied to the events of a payload.
FilterCall(payload, utc_now) ==
    /\ ~flatten_estimated_timetable(payload, utc_now).raised
    /\ fn' = [op |-> "filter", arg |-> payload,
              result |-> FilterEvents(flatten_estimated_timetable(payload, utc_now).out,
                                      lead_time_horizon_s),
              now |-> utc_now]
    /\ UNCHANGED <<sd, http, files, daily, last, nRows, cycle>>

NextFilter ==
    /\ fn.op = "none"
    /\ \E payload \in FlattenPayloads, utc_now \in UtcNow : FilterCall(payload, utc_now)

SpecFilter == InitFetch /\ [][NextFilter]_vars

\* The event is one of the events of the sequence.
Among(e, events) == \E i \in 1..Len(events) : events[i] = e

\* The events of the payload that are valid but for their lead time: the
\* line is accepted by line-code matching, delay and scheduled time are there.
ValidEvents(payload, utc_now) ==
    LET out == flatten_estimated_timetable(payload, utc_now).out
    IN  {out[i] : i \in {j \in 1..Len(out) :
            /\ _is_rer_line(out[j].line_code)
            /\ out[j].delay_seconds # Null
            /\ out[j].scheduled_time_utc.kind = "iso"}}

\* The lead time lies in the closed interval [0, horizon].
InHorizon(e) ==
    /\ e.lead_time_seconds # Null
    /\ e.lead_time_seconds[1] >= 0
    /\ e.lead_time_seconds[1] <= lead_time_horizon_s

\* A cycle whose fetch returned a payload that flattens, and whose
\* build_rer_events is over.
Built ==
    /\ cycle.pc \in {"built", "raised"}
    /\ http.pc = "returned"
    /\ ~flatten_estimated_timetable(Payloads[cycle.payload], cycle.now).raised

\* C14: build_rer_events keeps an otherwise valid event exactly if its lead
\* time is in the closed interval [0, lead_time_horizon_s]: 0 and the
\* horizon are kept, -1 and the horizon plus one are not.
C14_ClosedLeadInterval ==
    Built =>
        /\ cycle.pc = "built"
        /\ \A e \in ValidEvents(Payloads[cycle.payload], cycle.now) :
              Among(e, cycle.events) <=> InHorizon(e)

\* The filter lines on their own: of the valid events whose line starts
\* with "RER ", exactly those with a lead time in [0, horizon] are kept.
FilterLinesClosedInterval ==
    fn.op = "filter" =>
        \A e \in ValidEvents(fn.arg, fn.now) :
            StartsWithRER(e.line_code) => (Among(e, fn.result) <=> InHorizon(e))

\* C16: every event whose line is accepted by line-code matching (lower
\* case forms included), with a delay, a scheduled time and a lead time
\* within the horizon, is in the output of build_rer_events.
C16_KeepsAcceptedLines ==
    Built =>
        \A e \in ValidEvents(Payloads[cycle.payload], cycle.now) :
            InHorizon(e) => cycle.pc = "built" /\ Among(e, cycle.events)

\* The filter lines on their own: every valid event within the horizon is kept.
FilterLinesKeepAcceptedLines ==
    fn.op = "filter" =>
        \A e \in ValidEvents(fn.arg, fn.now) : InHorizon(e) => Among(e, fn.result)

\* C22: every event the filter hands on to the aggregator has a scheduled
\* time and a delay; an event without a scheduled time is dropped.
C22_NoUnscheduledAggregated ==
    fn.op = "filter" =>
        \A i \in 1..Len(fn.result) :
            /\ fn.result[i].scheduled_time_utc.kind = "iso"
            /\ fn.result[i].delay_seconds # Null

\* C22 witness: of three flattened events, one without a scheduled time and
\* one without a delay, the filter hands on the complete one alone.
C22_Witness ==
    /\ fn.op = "filter"
    /\ LET out == flatten_estimated_timetable(fn.arg, fn.now).out
       IN  /\ Len(out) = 3
           /\ out[1].scheduled_time_utc = EmptyString
           /\ out[3].scheduled_time_utc.kind = "iso" /\ out[3].delay_seconds = Null
           /\ fn.result = <<out[2]>>

----------------------------------------------------------------------------
(* aggregate_poll, called directly on frames of filtered events, and the   *)
(* writer called on what it returns.                                       *)

\* A snapshot_at_utc value: the ISO string the flattener writes, or a
\* tz-aware pandas Timestamp; at is in seconds since 2024-01-01T00:00Z.
SnapshotString == [kind |-> "iso", at |-> SnapshotAt]

SnapshotTimestamp == [kind |-> "timestamp", at |-> SnapshotAt]

\* Delays of the events, in seconds: early, on time, late.
Delays == {0 - 60, 0, 30, 90}

\* Lines of the events, in the encoding of the ledger: "RER A", "RER B".
EventLines == {1, 2}

\* A filtered event as the aggregator reads it.
MkEvent(snap, stop, line, delay) ==
    [snapshot_at_utc |-> snap, stop_id |-> stop, line_code |-> line,
     delay_seconds |-> Some(delay)]

\* Largest number of events in a frame handed to aggregate_poll.
MaxEvents == 3

\* The frames of at most k events of one snapshot.
EventFrames(k) ==
    UNION {[1..j -> {MkEvent(snap, stop, line, d) :
                        stop \in StopIds, line \in EventLines, d \in Delays}] :
           j \in 0..k, snap \in {SnapshotString, SnapshotTimestamp}}

\* Keys (stop_id, line_code) in ascending order, as groupby sorts them.
RECURSIVE SortedPairs(_)
SortedPairs(K) ==
    IF K = {} THEN << >>
    ELSE LET k == CHOOSE x \in K :
                    \A y \in K : x[1] < y[1] \/ (x[1] = y[1] /\ x[2] <= y[2])
         IN  <<k>> \o SortedPairs(K \ {k})

\* Series.clip(lower=0)
ClipLower(d) == IF d < 0 THEN 0 ELSE d

\* The agg of one group of events with a delay (lines 85 to 100): mean,
\* mean of the clipped delays, count, counts of negative and of positive
\* delays; the means rounded to 3 decimals, held in thousandths.
GroupMeasures(g) ==
    LET d == [i \in 1..Len(g) |-> g[i].delay_seconds[1]]
    IN  [mean_delay_s |-> RoundDiv(1000 * SumSeq(d), Len(g)),
         mean_lateness_s |-> RoundDiv(1000 * SumSeq([i \in 1..Len(d) |-> ClipLower(d[i])]), Len(g)),
         n |-> Len(g),
         n_neg |-> Len(SelectSeq(d, LAMBDA x : x < 0)),
         n_pos |-> Len(SelectSeq(d, LAMBDA x : x > 0))]

\* polling_pipeline.aggregate_poll(df_events).  An empty frame is returned
\* as an empty frame with the nine columns.  Else the poll time is the
\* first snapshot_at_utc, asked .tz_convert(tz_local): a pandas Timestamp
\* has it, a str has not.  The rows carry the poll time to the minute.
aggregate_poll(df_events) ==
    IF df_events = << >> THEN Done(<< >>)
    ELSE IF df_events[1].snapshot_at_utc.kind # "timestamp" THEN Raised("AttributeError")
    ELSE LET poll_at_utc == df_events[1].snapshot_at_utc.at \div 60
             keys == SortedPairs({<<df_events[i].stop_id, df_events[i].line_code>> :
                                     i \in 1..Len(df_events)})
         IN  Done([k \in 1..Len(keys) |->
                     MkRow(poll_at_utc, keys[k][1], keys[k][2],
                           GroupMeasures(SelectSeq(df_events,
                               LAMBDA e : e.stop_id = keys[k][1] /\ e.line_code = keys[k][2])))])

\* A call aggregate_poll(df_events, tz_local).
AggregateCall(df_events) ==
    /\ fn' = [op |-> "aggregate", arg |-> df_events, result |-> aggregate_poll(df_events),
              now |-> 0]
    /\ UNCHANGED <<sd, http, files, daily, last, nRows, cycle>>

\* The writer called on the rows the aggregator returned.
AppendAggregated ==
    /\ fn.op = "aggregate"
    /\ ~fn.result.raised
    /\ last.op = "none"
    /\ AppendCall(fn.result.out)

NextAggregate ==
    \/ /\ fn.op = "none"
       /\ \E df_events \in EventFrames(MaxEvents) : AggregateCall(df_events)
    \/ AppendAggregated

SpecAggregate == InitLedger /\ [][NextAggregate]_vars

\* The events of a frame that carry the key of a row.
EventsOf(df, row) ==
    {i \in 1..Len(df) : df[i].stop_id = row.stop_id /\ df[i].line_code = row.line_code}

\* The rows are one per distinct (stop_id, line_code) of the events, each
\* with the mean delay, the mean of max(delay, 0), the count and the counts
\* of negative and positive delays of its events (means to 3 decimals).
RowsSummarise(rows, df) ==
    /\ \A i \in 1..Len(df) :
          Cardinality({k \in 1..Len(rows) : i \in EventsOf(df, rows[k])}) = 1
    /\ \A k \in 1..Len(rows) :
          LET I == EventsOf(df, rows[k])
              delay == [i \in I |-> df[i].delay_seconds[1]]
          IN  /\ I # {}
              /\ rows[k].n = Cardinality(I)
              /\ rows[k].n_neg = Cardinality({i \in I : delay[i] < 0})
              /\ rows[k].n_pos = Cardinality({i \in I : delay[i] > 0})
              /\ IsRounded(rows[k].mean_delay_s, 1000 * SumSet(I, delay), Cardinality(I))
              /\ IsRounded(rows[k].mean_lateness_s,
                           1000 * SumSet(I, [i \in I |-> IF delay[i] > 0 THEN delay[i] ELSE 0]),
                           Cardinality(I))

\* C17: aggregate_poll returns exactly one row per distinct (stop_id,
\* line_code) of the filtered events, with the mean delay, the mean
\* lateness max(delay, 0), n, n_neg and n_pos of the group.
C17_OneRowPerGroup ==
    fn.op = "aggregate" =>
        /\ ~fn.result.raised
        /\ RowsSummarise(fn.result.out, fn.arg)

\* C17 for frames whose snapshot_at_utc holds pandas Timestamps.
C17_OneRowPerGroupOfTimestamps ==
    (fn.op = "aggregate" /\ fn.arg # << >> /\ fn.arg[1].snapshot_at_utc.kind = "timestamp")
        => /\ ~fn.result.raised
           /\ RowsSummarise(fn.result.out, fn.arg)

\* The poll time a caller can read off what aggregate_poll returned: that
\* of its rows, none when there is no row.
PollTimeOf(result) ==
    IF result.raised \/ result.out = << >> THEN Null ELSE Some(result.out[1].poll_at_utc)

\* C18: for a frame of zero events aggregate_poll returns no rows but a
\* poll time that is not null, and the writer called on the result raises
\* nothing and leaves the ledger as it was.
C18_EmptyPollHasPollTime ==
    (fn.op = "aggregate" /\ fn.arg = << >>) =>
        /\ ~fn.result.raised
        /\ fn.result.out = << >>
        /\ PollTimeOf(fn.result) # Null
        /\ last.op = "append" => (last.ret = None /\ files = last.files /\ daily = last.daily)

\* C18 without the poll time: no rows, no exception, and the writer
\* leaves the ledger as it was.
C18_EmptyPollIsNoOp ==
    (fn.op = "aggregate" /\ fn.arg = << >>) =>
        /\ ~fn.result.raised
        /\ fn.result.out = << >>
        /\ last.op = "append" => (last.ret = None /\ files = last.files /\ daily = last.daily)

----------------------------------------------------------------------------
(* Growth of the ledger, checked under SpecLedger.                         *)

\* The keys of the rows of a ledger file, as the file spells them.
KeysOf(text) == {KeyOf(text[i]) : i \in 1..Len(text)}

\* The last call appended rows: every file of another day is as it was.
OtherDaysUntouched ==
    /\ DOMAIN last.files \subseteq DOMAIN files
    /\ DOMAIN files \subseteq DOMAIN last.files \cup {last.ret}
    /\ \A d \in DOMAIN last.files \ {last.ret} : files[d] = last.files[d]

\* C24: an append removes no key from the ledger file of its day and does
\* not lower its row count; the file of any other day is left as it was,
\* a poll of a new service day going to a new file.
C24_LedgerMonotone ==
    (last.op = "append" /\ last.ret # None) =>
        /\ OtherDaysUntouched
        /\ last.ret \in DOMAIN last.files =>
              /\ KeysOf(last.files[last.ret]) \subseteq KeysOf(files[last.ret])
              /\ Len(files[last.ret]) >= Len(last.files[last.ret])

\* An append removes no key and touches no file of another day.
C24_KeysNeverRemoved ==
    (last.op = "append" /\ last.ret # None) =>
        /\ OtherDaysUntouched
        /\ last.ret \in DOMAIN last.files =>
              KeysOf(last.files[last.ret]) \subseteq KeysOf(files[last.ret])

\* The service day of a poll time: the calendar day before when the wall
\* clock is short of the cutoff, else the calendar day.
ServiceDayOf(t) ==
    IF MinuteOfDay(t) < 60 * service_day_cutoff_h + service_day_cutoff_m
    THEN DateOf(t) - 1
    ELSE DateOf(t)

\* C29: every row of the ledger file named for service day D has a poll
\* time whose service day is D, whatever rows were passed to
\* append_raw_poll_rows, rows of different poll times included.
C29_RowsInOwnDayFile ==
    \A d \in DOMAIN files :
        \A i \in 1..Len(files[d]) : ServiceDayOf(files[d][i].poll_at_local) = d

\* The same for the first row of each frame appended: the file written
\* is that of its service day.
C29_FirstRowInOwnDayFile ==
    (last.op = "append" /\ last.rows # << >>) =>
        /\ last.ret = ServiceDayOf(last.rows[1].poll_at_local)
        /\ \E i \in 1..Len(files[last.ret]) :
              KeyOf(files[last.ret][i]) = KeyOf(ToCsv(last.rows)[1])

----------------------------------------------------------------------------
(* The ledger write step by step.  DataFrame.to_csv(out_path) opens the    *)
(* ledger file itself for writing, which empties it, writes the records    *)
(* into it and closes it (lines 136 and 139); there is no temporary file   *)
(* and no rename.  An OSError or the end of the process can come between   *)
(* any two of these steps.                                                 *)

\* The file append_raw_poll_rows writes for non-empty rows, and the whole
\* text it means to write (lines 119 to 139, up to the call of to_csv).
WriteTarget(raw_dir, rows) ==
    LET day == _service_day(rows[1].poll_at_local,
                            service_day_cutoff_h, service_day_cutoff_m)
    IN  [day |-> day,
         text |-> IF day \in DOMAIN raw_dir
                  THEN ToCsv(MergeRows(ReadCsv(raw_dir[day]), rows))
                  ELSE ToCsv(SortValues(rows))]

\* append_raw_poll_rows up to the open of out_path inside to_csv: the file
\* is created or emptied.
OpenForWrite(rows) ==
    /\ last.op \in {"none", "append", "failed"}
    /\ rows # << >>
    /\ LET target == WriteTarget(files, rows)
       IN  /\ files' = WriteFile(files, target.day, << >>)
           /\ last' = [op |-> "to_csv", rows |-> rows, ret |-> target.day, bin_sec |-> 0,
                       files |-> files, daily |-> daily, text |-> target.text]
    /\ nRows' = nRows + Len(rows)
    /\ UNCHANGED <<daily, sd, http, cycle, fn>>

\* to_csv writes the next record into the open file.
WriteRecord ==
    /\ last.op = "to_csv"
    /\ Len(files[last.ret]) < Len(last.text)
    /\ files' = WriteFile(files, last.ret,
                          SubSeq(last.text, 1, Len(files[last.ret]) + 1))
    /\ UNCHANGED <<daily, last, nRows, sd, http, cycle, fn>>

\* to_csv closes the file and append_raw_poll_rows returns out_path.
CloseFile ==
    /\ last.op = "to_csv"
    /\ files[last.ret] = last.text
    /\ last' = [last EXCEPT !.op = "append"]
    /\ UNCHANGED <<files, daily, nRows, sd, http, cycle, fn>>

\* The write fails (OSError) or the process ends before the file is closed.
WriteInterrupted ==
    /\ last.op = "to_csv"
    /\ last' = [last EXCEPT !.op = "failed"]
    /\ UNCHANGED <<files, daily, nRows, sd, http, cycle, fn>>

NextWrite ==
    \/ \E rows \in RowFrames(MaxRows - nRows) : OpenForWrite(rows)
    \/ WriteRecord
    \/ CloseFile
    \/ WriteInterrupted

SpecWrite == InitLedger /\ [][NextWrite]_vars

\* The ledger file of the call holds what it held before the call (or is
\* still absent), or the whole merged text.
WholeFile ==
    \/ /\ last.ret \in DOMAIN files
       /\ files[last.ret] = last.text
    \/ /\ last.ret \in DOMAIN last.files
       /\ last.ret \in DOMAIN files
       /\ files[last.ret] = last.files[last.ret]
    \/ /\ last.ret \notin DOMAIN last.files
       /\ last.ret \notin DOMAIN files

\* C23: during an append, after it, and after a failure in the middle of
\* its write, the ledger file holds its whole content of before the append
\* or the whole merged content.
C23_NoPartialFile ==
    last.op \in {"to_csv", "failed", "append"} => WholeFile

\* An append that returned has left the whole merged content, the one
\* append_raw_poll_rows computes from the directory it found.
C23_WholeFileAfterReturn ==
    last.op = "append" =>
        /\ WholeFile
        /\ files = append_raw_poll_rows(last.files, last.rows).files

----------------------------------------------------------------------------
(* run_one_poll after build_rer_events (lines 205 to 208), on frames of    *)
(* filtered events.  Within run_one_poll itself these lines are not        *)
(* reached: build_rer_events raises at its line 48.                        *)

\* The stages of a cycle in the order of the pipeline.
Stages == <<"fetch", "flatten", "filter", "aggregate", "append", "rebin">>

\* The frames of at most k filtered events a cycle works on: one snapshot,
\* held as the flattener's string or as a pandas Timestamp; the delays are
\* those of one early train and one late.
CycleFrames(k) ==
    LET CycleDelays == {0 - 60, 30}
    IN  UNION {[1..j -> {MkEvent(snap, stop, line, d) :
                            stop \in StopIds, line \in EventLines, d \in CycleDelays}] :
               j \in 0..k, snap \in {SnapshotString, SnapshotTimestamp}}

\* Line 204 has handed over a frame of events.
CycleBuilt(events, bin_sec) ==
    /\ cycle.pc \in {"idle", "returned", "raised"}
    /\ cycle' = [IdleCycle EXCEPT !.pc = "built", !.events = events, !.bin_sec = bin_sec,
                                  !.files = files, !.daily = daily,
                                  !.stages = <<"fetch", "flatten", "filter">>]
    /\ nRows' = nRows + Len(events)
    /\ UNCHANGED <<files, daily, last, sd, http, fn>>

\* Line 205: rows = aggregate_poll(events, tz_local).
CycleAggregate ==
    /\ cycle.pc = "built"
    /\ LET res == aggregate_poll(cycle.events)
       IN  cycle' = IF res.raised
                    THEN [cycle EXCEPT !.pc = "raised", !.error = res.error,
                                       !.stages = Append(@, "aggregate")]
                    ELSE [cycle EXCEPT !.pc = "aggregated", !.rows = res.out,
                                       !.stages = Append(@, "aggregate")]
    /\ UNCHANGED <<files, daily, last, nRows, sd, http, fn>>

\* Line 206: raw_path = append_raw_poll_rows(rows, settings).
CycleAppend ==
    /\ cycle.pc = "aggregated"
    /\ LET res == append_raw_poll_rows(files, cycle.rows)
       IN  /\ files' = res.files
           /\ cycle' = [cycle EXCEPT !.pc = "appended", !.raw_path = res.ret,
                                     !.stages = Append(@, "append")]
    /\ UNCHANGED <<daily, last, nRows, sd, http, fn>>

\* Line 207 with a raw_path: daily_path = rebuild_daily_from_raw(...).
CycleRebuild ==
    /\ cycle.pc = "appended"
    /\ cycle.raw_path # None
    /\ daily' = rebuild_daily_from_raw(files, daily, cycle.raw_path, cycle.bin_sec)
    /\ cycle' = [cycle EXCEPT !.pc = "rebuilt", !.daily_path = cycle.raw_path,
                              !.stages = Append(@, "rebin")]
    /\ UNCHANGED <<files, last, nRows, sd, http, fn>>

\* Line 207 without a raw_path (daily_path = None), and line 208.
CycleReturn ==
    /\ \/ cycle.pc = "rebuilt"
       \/ cycle.pc = "appended" /\ cycle.raw_path = None
    /\ cycle' = [cycle EXCEPT !.pc = "returned"]
    /\ UNCHANGED <<files, daily, last, nRows, sd, http, fn>>

NextCycle ==
    \/ \E events \in CycleFrames(MaxEvents - nRows), bin_sec \in BinSecs :
          CycleBuilt(events, bin_sec)
    \/ CycleAggregate
    \/ CycleAppend
    \/ CycleRebuild
    \/ CycleReturn

SpecCycle == InitLedger /\ [][NextCycle]_vars

\* The stages entered are the first stages of the pipeline, in its order.
InPipelineOrder == cycle.stages = SubSeq(Stages, 1, Len(cycle.stages))

\* The cycle is over, and its fetch returned a payload the flattener
\* went through without raising.
CycleOverAfterFlatten ==
    /\ cycle.pc \in {"raised", "returned"}
    /\ http.pc = "returned"
    /\ ~flatten_estimated_timetable(Payloads[cycle.payload], cycle.now).raised

C25_LaterStagesInOrder ==
    /\ InPipelineOrder
    /\ cycle.pc \in {"rebuilt", "returned"} \/ cycle.pc = "appended" =>
          ("rebin" = cycle.stages[Len(cycle.stages)] <=>
              (cycle.raw_path # None /\ cycle.pc # "appended"))
    /\ cycle.pc = "returned" =>
          cycle.stages = IF cycle.raw_path # None THEN Stages ELSE SubSeq(Stages, 1, 5)

----------------------------------------------------------------------------
(* Two processes in append_raw_poll_rows at once.  Each call reads the     *)
(* ledger file (lines 131 and 132) and later writes it (lines 133 to 139); *)
(* nothing locks the file in between.                                      *)

Procs == {1, 2}

\* A call of append_raw_poll_rows by one process: its position, its rows,
\* the day of its target file, and what it found and read there.
NewCall(rows) ==
    [pc |-> "called", rows |-> rows,
     day |-> _service_day(rows[1].poll_at_local, service_day_cutoff_h, service_day_cutoff_m),
     exists |-> FALSE, cur |-> << >>]

\* A ledger as one earlier append can have left it.
InitRace ==
    /\ \E rows \in RowFrames(1) : files = append_raw_poll_rows(<< >>, rows).files
    /\ daily = << >>
    /\ last = NoCall
    /\ nRows = 0
    /\ sd = IdleDay
    /\ http = IdleHttp
    /\ cycle = IdleCycle
    /\ fn = NoFn

\* Both processes call append_raw_poll_rows, each with one row.
RaceStart(rows1, rows2) ==
    /\ last.op = "none"
    /\ rows1 # << >> /\ rows2 # << >>
    /\ last' = [op |-> "concurrent", rows |-> << >>, ret |-> None, bin_sec |-> 0,
                files |-> files, daily |-> daily,
                calls |-> <<NewCall(rows1), NewCall(rows2)>>, log |-> << >>]
    /\ UNCHANGED <<files, daily, nRows, sd, http, cycle, fn>>

\* Lines 131 and 132: out_path.exists() and pd.read_csv(out_path).
RaceRead(p) ==
    /\ last.op = "concurrent"
    /\ last.calls[p].pc = "called"
    /\ LET c == last.calls[p]
           found == c.day \in DOMAIN files
       IN  last' = [last EXCEPT !.calls[p] = [c EXCEPT !.pc = "read", !.exists = found,
                                                !.cur = IF found THEN ReadCsv(files[c.day])
                                                        ELSE << >>],
                                !.log = Append(@, <<p, "read">>)]
    /\ UNCHANGED <<files, daily, nRows, sd, http, cycle, fn>>

\* Lines 133 to 139: the merge with what was read, or the rows alone, is
\* written to out_path.
RaceWrite(p) ==
    /\ last.op = "concurrent"
    /\ last.calls[p].pc = "read"
    /\ LET c == last.calls[p]
       IN  /\ files' = WriteFile(files, c.day,
                                 ToCsv(IF c.exists THEN MergeRows(c.cur, c.rows)
                                       ELSE SortValues(c.rows)))
           /\ last' = [last EXCEPT !.calls[p] = [c EXCEPT !.pc = "done"],
                                   !.log = Append(@, <<p, "write">>)]
    /\ UNCHANGED <<daily, nRows, sd, http, cycle, fn>>

NextRace ==
    \/ \E rows1 \in RowFrames(1), rows2 \in RowFrames(1) : RaceStart(rows1, rows2)
    \/ \E p \in Procs : RaceRead(p)
    \/ \E p \in Procs : RaceWrite(p)

SpecRace == InitRace /\ [][NextRace]_vars

\* Both calls have returned.
BothDone == last.op = "concurrent" /\ \A p \in Procs : last.calls[p].pc = "done"

\* Both processes read before either wrote.
ReadsOverlap == Len(last.log) >= 2 /\ last.log[1][2] = "read" /\ last.log[2][2] = "read"

\* Every key of the rows of process p is in the file of its day.
KeysPresent(p) ==
    LET c == last.calls[p]
    IN  /\ c.day \in DOMAIN files
        /\ KeysOf(ToCsv(c.rows)) \subseteq KeysOf(files[c.day])

\* The rebinning of a ledger file: its rows grouped by bin, stop and line.
Rebinned(text, bin_sec) ==
    IF text = << >> THEN << >> ELSE GroupByBin(ReadCsv(text), bin_sec)

\* The cycle returned a ledger path, its daily file is the rebinning of
\* the ledger file as it stands; or it had no rows and returned no path,
\* both directories being as they were.
DailyFollowsLedger ==
    /\ cycle.rows = << >> <=> cycle.raw_path = None
    /\ IF cycle.raw_path # None
       THEN /\ cycle.daily_path = cycle.raw_path
            /\ cycle.raw_path \in DOMAIN daily
            /\ daily[cycle.raw_path] = Rebinned(files[cycle.raw_path], cycle.bin_sec)
       ELSE /\ files = cycle.files
            /\ daily = cycle.daily

\* The payload of the cycle holds an event the filter is to keep.
HasRows ==
    \E e \in ValidEvents(Payloads[cycle.payload], cycle.now) : InHorizon(e)

C28_DailyFollowsLedger ==
    cycle.pc = "returned" => DailyFollowsLedger

\* C26: when the two appends do not overlap, every appended key is in the
\* ledger afterwards; rows of one process are missing only when both read
\* the file before either wrote it.
C26_LostUpdateOnlyWhenOverlapping ==
    BothDone =>
        /\ ~ReadsOverlap => \A p \in Procs : KeysPresent(p)
        /\ (last.log[1][1] = last.log[2][1]) =>
              files = append_raw_poll_rows(
                          append_raw_poll_rows(last.files, last.calls[last.log[1][1]].rows).files,
                          last.calls[last.log[3][1]].rows).files

\* C26 witness: both processes read the same ledger file before either
\* wrote, and the row the first writer appended is missing at the end.
C26_Witness ==
    /\ BothDone
    /\ ReadsOverlap
    /\ last.calls[1].day = last.calls[2].day
    /\ \E p \in Procs : ~KeysPresent(p)

====
